---------------------------- MODULE Spec2Model ----------------------------
(***************************************************************************)
(* A model of crawl.py: the recursive FTP/SFTP mirroring script that walks *)
(* a remote tree on one connection, submits one download_file task per     *)
(* file to a ThreadPoolExecutor, runs aria2c as a subprocess per download, *)
(* repeats the pass in watch mode, and stops the subprocesses it tracks in *)
(* the global list `subprocesses` on a signal or an exception.             *)
(*                                                                         *)
(* The FTP and the SFTP branch of main, and the two recursive walkers, are *)
(* line for line the same in everything modelled here (makedirs, listing,  *)
(* recursion, submit, the with-block, the watch test, the except clause),  *)
(* so one set of actions stands for both.                                  *)
(***************************************************************************)
EXTENDS Integers, Sequences, FiniteSets, TLC

(***************************************************************************)
(* Bounds of the model.                                                    *)
(***************************************************************************)
\* Passes of the watch loop that are explored (the loop itself is endless).
MaxPasses == 2
\* --max-concurrency ranges over 1..MaxWorkers.
MaxWorkers == 2

(***************************************************************************)
(* Strings are tuples of one-character strings, so that str.endswith and   *)
(* str.split are computed and not assumed.                                 *)
(***************************************************************************)
Comma == ","

\* str.endswith(suffix)
EndsWith(s, suffix) ==
    /\ Len(suffix) <= Len(s)
    /\ SubSeq(s, Len(s) - Len(suffix) + 1, Len(s)) = suffix

\* Index of the first separator in s, 0 when there is none.
FirstComma(s) ==
    IF \E i \in 1..Len(s) : s[i] = Comma
    THEN CHOOSE i \in 1..Len(s) :
            s[i] = Comma /\ \A j \in 1..(i - 1) : s[j] # Comma
    ELSE 0

\* str.split(','): "" gives [""], "a,b" gives ["a", "b"], "a," gives ["a", ""].
RECURSIVE Split(_)
Split(s) ==
    IF FirstComma(s) = 0
    THEN <<s>>
    ELSE <<SubSeq(s, 1, FirstComma(s) - 1)>>
            \o Split(SubSeq(s, FirstComma(s) + 1, Len(s)))

(***************************************************************************)
(* The remote tree (unchanged during a run) and the inputs of a run.       *)
(* A path is the sequence of names below --remote-dir; the local path of   *)
(* an entry is the same sequence below --local-dir (os.path.join of the    *)
(* directory and the name on both sides).                                  *)
(***************************************************************************)
\* os.path.exists(local_file_path) is False.
NoFile == -1

RootDir == <<>>
SubDir == <<"d">>
FileA == <<"a", "t">>
FileB == <<"b", "z">>

\* listdir_attr / mlsd of each directory, in listing order.
Listing(dir) ==
    IF dir = RootDir
    THEN << [name |-> FileA, kind |-> "file", size |-> 2],
            [name |-> SubDir, kind |-> "dir", size |-> 0] >>
    ELSE << [name |-> FileB, kind |-> "file", size |-> 3] >>

\* What a listing call can return for a directory: the server reports the
\* entry of d either as a regular file or as an entry that is neither a
\* regular file nor a directory (a symbolic link on SFTP; a cdir, pdir or
\* OS-specific entry of an FTP MLSD listing).
Listings(dir) ==
    IF dir = RootDir
    THEN { Listing(dir) }
    ELSE { Listing(dir),
           << [name |-> FileB, kind |-> "link", size |-> 3] >> }

\* os.path.join(dir, name); a name is one path component.
Join(dir, name) == Append(dir, name)

\* os.path.dirname, and the directories a path lies in.
DirName(path) == SubSeq(path, 1, Len(path) - 1)

Ancestors(path) == { SubSeq(path, 1, k) : k \in 0..(Len(path) - 1) }

FilePaths == { Join(RootDir, FileA), Join(<<SubDir>>, FileB) }

RemoteSize(path) == IF path = Join(RootDir, FileA) THEN 2 ELSE 3

\* Sizes a local file can have before the run: a partial or stale copy, or a
\* complete one.
LocalSizes(path) == {1, RemoteSize(path)}

\* Values of --filter-extension: none, one entry, two entries.
Filters == { <<>>, <<"t">>, <<"q", ",", "z">> }


(***************************************************************************)
(* State.                                                                  *)
(***************************************************************************)
VARIABLES
    force,             \* args.force
    watch,             \* args.watch
    filter_extension,  \* args.filter_extension
    max_concurrency,   \* args.max_concurrency
    localFiles,        \* local path of a file -> its size, or NoFile
    localDirs,         \* local directories that exist (relative to --local-dir)
    pc,                \* where the main thread is
    pass,              \* passes of the watch loop started so far
    stack,             \* the walker's recursion: frames [dir, idx, listed, entries]
    visited,           \* directories listed in the current pass, in order
    connUsers,         \* threads inside a call on the remote connection
    tasks,             \* the tasks submitted: the executor's futures
    queue,             \* the executor's work queue (task ids, FIFO)
    worker,            \* worker thread -> [pc, task, proc]
    procs,             \* the aria2c subprocesses started (Popen objects)
    subprocesses,      \* the global list `subprocesses` (ids into procs)
    stopIdx,           \* position of the for loop of stop_all_subprocesses
    signaled,          \* a SIGINT/SIGTERM was delivered
    listErr,           \* a listing call raised
    activeAtSignal,    \* subprocesses alive when the signal was delivered
    activeAtError,     \* subprocesses alive when the listing call raised
    log,               \* what this pass printed: <<kind, task id or 0>>
    prevFailed,        \* a transfer of the previous pass did not complete
    exitCode           \* the process's exit status, "none" while it runs

vars == << force, watch, filter_extension, max_concurrency, localFiles,
           localDirs, pc, pass, stack, visited, connUsers, tasks, queue, worker, procs,
           subprocesses, stopIdx, signaled, listErr, activeAtSignal,
           activeAtError, log, prevFailed, connUsers, exitCode >>

argVars == << force, watch, filter_extension, max_concurrency >>

Workers == 1..max_concurrency

IdleWorker == [pc |-> "idle", task |-> 0, proc |-> 0]

\* The state after parse_args, before main connects.
Init ==
    /\ force \in BOOLEAN
    /\ watch \in BOOLEAN
    /\ filter_extension \in Filters
    /\ max_concurrency \in 1..MaxWorkers
    /\ localFiles \in { f \in [FilePaths -> {NoFile, 1, 2, 3}] :
                          \A path \in FilePaths :
                              f[path] \in {NoFile} \cup LocalSizes(path) }
    /\ localDirs = UNION { Ancestors(p) : p \in { q \in FilePaths :
                                                   localFiles[q] # NoFile } }
    /\ pc = "start"
    /\ pass = 0
    /\ stack = <<>>
    /\ visited = <<>>
    /\ connUsers = {}
    /\ tasks = <<>>
    /\ queue = <<>>
    /\ worker = [w \in 1..max_concurrency |-> IdleWorker]
    /\ procs = <<>>
    /\ subprocesses = <<>>
    /\ stopIdx = 0
    /\ signaled = FALSE
    /\ listErr = FALSE
    /\ activeAtSignal = {}
    /\ activeAtError = {}
    /\ log = {}
    /\ prevFailed = FALSE
    /\ exitCode = "none"

Running == { p \in 1..Len(procs) : procs[p].status = "running" }

Terminal(t) == tasks[t].state \in {"Completed", "Failed"}

\* Mutant of PoolDrained: the with-block's exit does not wait, as
\* shutdown(wait=False) would.
PoolDrainedNoWait == TRUE

\* What ThreadPoolExecutor.shutdown(wait=True) waits for: the queue is
\* drained and every worker thread has returned.
PoolDrained ==
    /\ queue = <<>>
    /\ \A w \in Workers : worker[w].pc = "idle"


(***************************************************************************)
(* download_file: the decision (lines 34-49) as the code computes it.      *)
(***************************************************************************)
\* any(map(lambda x: item_filename.endswith(x), filter_extension.split(',')))
AnyEndsWith(item_filename, filter) ==
    \E i \in 1..Len(Split(filter)) : EndsWith(item_filename, Split(filter)[i])

\* Mutant of Decide: --force is not consulted when the sizes are equal.
DecideIgnoresForce(item_filename, local_file_size, item_size, frc, filter) ==
    IF filter # <<>> /\ ~AnyEndsWith(item_filename, filter)
    THEN "Skip"
    ELSE IF local_file_size # NoFile /\ local_file_size = item_size
         THEN "Skip"
         ELSE "Download"

\* Mutant of Decide: the size comparison comes before the extension filter.
DecideSizeFirst(item_filename, local_file_size, item_size, frc, filter) ==
    IF local_file_size # NoFile /\ local_file_size = item_size /\ ~frc
    THEN "Skip"
    ELSE IF local_file_size = NoFile \/ local_file_size # item_size
         THEN "Download"
         ELSE IF filter # <<>> /\ ~AnyEndsWith(item_filename, filter)
              THEN "Skip"
              ELSE "Download"

\* Mutant of Decide: a missing local file is fetched only under --force.
DecideMissingNeedsForce(item_filename, local_file_size, item_size, frc, filter) ==
    IF filter # <<>> /\ ~AnyEndsWith(item_filename, filter)
    THEN "Skip"
    ELSE IF local_file_size = NoFile
         THEN IF frc THEN "Download" ELSE "Skip"
         ELSE IF local_file_size = item_size /\ ~frc
              THEN "Skip"
              ELSE "Download"

\* Mutant of Decide: an existing file of the remote size is fetched again.
DecideNoSizeCheck(item_filename, local_file_size, item_size, frc, filter) ==
    IF filter # <<>> /\ ~AnyEndsWith(item_filename, filter)
    THEN "Skip"
    ELSE "Download"

\* Mutant of Decide: an existing local file is kept whatever its size.
DecideExistsIsEnough(item_filename, local_file_size, item_size, frc, filter) ==
    IF filter # <<>> /\ ~AnyEndsWith(item_filename, filter)
    THEN "Skip"
    ELSE IF local_file_size # NoFile /\ ~frc
         THEN "Skip"
         ELSE "Download"

\* "Skip" where download_file returns before building the command,
\* "Download" where it goes on to Popen.
Decide(item_filename, local_file_size, item_size, frc, filter) ==
    IF filter # <<>> /\ ~AnyEndsWith(item_filename, filter)
    THEN "Skip"
    ELSE IF local_file_size # NoFile
         THEN IF local_file_size = item_size /\ ~frc
              THEN "Skip"
              ELSE "Download"
         ELSE "Download"

\* The line download_file prints for its decision.
DecisionLog(item_filename, local_file_size, item_size, frc, filter, t) ==
    IF filter # <<>> /\ ~AnyEndsWith(item_filename, filter)
    THEN { <<"skip_filter", t>> }
    ELSE IF local_file_size # NoFile
         THEN IF local_file_size = item_size /\ ~frc
              THEN { <<"skip_same", t>> }
              ELSE IF local_file_size # item_size
                   THEN { <<"sizes_differ", t>> }
                   ELSE {}
         ELSE {}

(***************************************************************************)
(* The worker threads of the executor, each running download_file.         *)
(***************************************************************************)
poolVars == << tasks, queue, worker, procs, subprocesses, localFiles, log >>
mainVars == << pc, pass, stack, visited, localDirs, stopIdx, signaled,
               listErr, activeAtSignal, activeAtError, prevFailed, connUsers, exitCode >>

\* Mutant of WorkerTake: the worker takes the newest queued task.
WorkerTakeLIFO(w) ==
    /\ worker[w].pc = "idle"
    /\ \A v \in 1..(w - 1) : worker[v].pc # "idle"
    /\ queue # <<>>
    /\ LET t == queue[Len(queue)]
           name == tasks[t].path[Len(tasks[t].path)]
           seen == localFiles[tasks[t].path]
           d == Decide(name, seen, tasks[t].size, force, filter_extension)
       IN /\ queue' = SubSeq(queue, 1, Len(queue) - 1)
          /\ log' = log \cup {<<"executing", t>>}
                        \cup DecisionLog(name, seen, tasks[t].size, force,
                                         filter_extension, t)
          /\ IF d = "Skip"
             THEN /\ tasks' = [tasks EXCEPT ![t].state = "Completed",
                                            ![t].decision = d,
                                            ![t].seen = seen]
                  /\ worker' = worker
             ELSE /\ tasks' = [tasks EXCEPT ![t].state = "Running",
                                            ![t].decision = d,
                                            ![t].seen = seen]
                  /\ worker' = [worker EXCEPT ![w] =
                                   [pc |-> "popen", task |-> t, proc |-> 0]]
    /\ UNCHANGED << procs, subprocesses, localFiles, argVars, mainVars >>

\* A worker takes the oldest queued task and runs download_file up to the
\* decision: lines 32-49.  The idle threads are interchangeable, so the one
\* of lowest index stands for whichever of them the queue wakes.
WorkerTake(w) ==
    /\ worker[w].pc = "idle"
    /\ \A v \in 1..(w - 1) : worker[v].pc # "idle"
    /\ queue # <<>>
    /\ LET t == Head(queue)
           name == tasks[t].path[Len(tasks[t].path)]
           seen == localFiles[tasks[t].path]
           d == Decide(name, seen, tasks[t].size, force, filter_extension)
       IN /\ queue' = Tail(queue)
          /\ log' = log \cup {<<"executing", t>>}
                        \cup DecisionLog(name, seen, tasks[t].size, force,
                                         filter_extension, t)
          /\ IF d = "Skip"
             THEN /\ tasks' = [tasks EXCEPT ![t].state = "Completed",
                                            ![t].decision = d,
                                            ![t].seen = seen]
                  /\ worker' = worker
             ELSE /\ tasks' = [tasks EXCEPT ![t].state = "Running",
                                            ![t].decision = d,
                                            ![t].seen = seen]
                  /\ worker' = [worker EXCEPT ![w] =
                                   [pc |-> "popen", task |-> t, proc |-> 0]]
    /\ UNCHANGED << procs, subprocesses, localFiles, argVars, mainVars >>

\* Mutant of Popen: the worker fetches the file over the traversal's
\* connection instead of starting aria2c on a connection of its own.
PopenOverConnection(w) ==
    /\ worker[w].pc = "popen"
    /\ procs' = Append(procs, [task |-> worker[w].task, pass |-> pass,
                               status |-> "running", term |-> FALSE,
                               killed |-> FALSE, rc |-> 0])
    /\ worker' = [worker EXCEPT ![w].pc = "append",
                                ![w].proc = Len(procs) + 1]
    /\ log' = log \cup {<<"starting", worker[w].task>>}
    /\ connUsers' = connUsers \cup {w}
    /\ UNCHANGED << tasks, queue, subprocesses, localFiles, argVars, pc, pass,
                    stack, visited, localDirs, stopIdx, signaled, listErr,
                    activeAtSignal, activeAtError, prevFailed, exitCode >>

\* subprocess.Popen(aria2c_command): lines 51-70.
Popen(w) ==
    /\ worker[w].pc = "popen"
    /\ procs' = Append(procs, [task |-> worker[w].task, pass |-> pass,
                               status |-> "running", term |-> FALSE,
                               killed |-> FALSE, rc |-> 0])
    /\ worker' = [worker EXCEPT ![w].pc = "append",
                                ![w].proc = Len(procs) + 1]
    /\ log' = log \cup {<<"starting", worker[w].task>>}
    /\ UNCHANGED << tasks, queue, subprocesses, localFiles, argVars, mainVars >>

\* subprocesses.append(process): line 71.
Register(w) ==
    /\ worker[w].pc = "append"
    /\ subprocesses' = Append(subprocesses, worker[w].proc)
    /\ worker' = [worker EXCEPT ![w].pc = "wait"]
    /\ UNCHANGED << tasks, queue, procs, localFiles, log, argVars, mainVars >>

\* What a transfer that does not complete leaves of the local file: as it
\* was, or a partial copy.
Leftover(path) == { localFiles[path], 1 }

\* process.wait() returns and download_file returns the exit code, which the
\* future keeps: lines 72-73.  aria2c either completes the file (exit 0), or
\* fails (exit 1), or was already stopped by stop_all_subprocesses.
WaitReturn(w) ==
    /\ worker[w].pc = "wait"
    /\ LET p == worker[w].proc
           t == worker[w].task
       IN IF procs[p].status = "running"
          THEN \/ /\ procs' = [procs EXCEPT ![p].status = "exited", ![p].rc = 0]
                  /\ localFiles' = [localFiles EXCEPT
                                       ![tasks[t].path] = tasks[t].size]
                  /\ tasks' = [tasks EXCEPT ![t].state = "Completed",
                                            ![t].rc = 0]
               \/ /\ procs' = [procs EXCEPT ![p].status = "exited", ![p].rc = 1]
                  /\ \E sz \in Leftover(tasks[t].path) :
                        localFiles' = [localFiles EXCEPT ![tasks[t].path] = sz]
                  /\ tasks' = [tasks EXCEPT ![t].state = "Failed", ![t].rc = 1]
          ELSE /\ tasks' = [tasks EXCEPT
                               ![t].state = IF procs[p].rc = 0
                                            THEN "Completed" ELSE "Failed",
                               ![t].rc = procs[p].rc]
               /\ UNCHANGED << procs, localFiles >>
    /\ worker' = [worker EXCEPT ![w] = IdleWorker]
    /\ UNCHANGED << queue, subprocesses, log, argVars, mainVars >>


(***************************************************************************)
(* stop_all_subprocesses (lines 9-18): one step per element of the list.   *)
(* The for loop reads the live list, so it also reaches elements appended  *)
(* while it runs.                                                          *)
(***************************************************************************)
\* The loop body for subprocesses[stopIdx]: poll, terminate, wait up to the
\* grace period, kill on timeout.  A stopped aria2c leaves a partial file.
StopOne ==
    /\ stopIdx <= Len(subprocesses)
    /\ LET p == subprocesses[stopIdx]
           path == tasks[procs[p].task].path
       IN IF procs[p].status = "running"
          THEN /\ \E timeout \in BOOLEAN :
                     procs' = [procs EXCEPT ![p].status = "exited",
                                            ![p].term = TRUE,
                                            ![p].killed = timeout,
                                            ![p].rc = IF timeout THEN -9 ELSE -15]
               /\ \E sz \in Leftover(path) :
                     localFiles' = [localFiles EXCEPT ![path] = sz]
          ELSE UNCHANGED << procs, localFiles >>
    /\ stopIdx' = stopIdx + 1

\* The loop has passed the end of the list.
StopFinished == stopIdx > Len(subprocesses)

(***************************************************************************)
(* The main thread: main (lines 115-201) and the recursive walker          *)
(* (lines 76-94 for FTP, 97-113 for SFTP).                                 *)
(***************************************************************************)
Top == stack[Len(stack)]

\* The main thread, as a user of the connection; the worker threads are 1..
MainThread == 0

\* Lines 133-150 / 172-176: the local base directory, connect and login.
Connect ==
    /\ pc = "start"
    /\ localDirs' = localDirs \cup {RootDir}
    /\ pc' = "scan"
    /\ UNCHANGED << pass, stack, visited, stopIdx, signaled, listErr,
                    activeAtSignal, activeAtError, prevFailed, connUsers, exitCode, argVars, poolVars >>

\* connect/login raises: the except clause of main (lines 163-166, 196-199).
ConnectFail ==
    /\ pc = "start"
    /\ localDirs' = localDirs \cup {RootDir}
    /\ pc' = "errStop"
    /\ stopIdx' = 1
    /\ log' = log \cup {<<"error", 0>>}
    /\ UNCHANGED << pass, stack, visited, signaled, listErr, activeAtSignal,
                    activeAtError, prevFailed, connUsers, exitCode, argVars, tasks, queue, worker,
                    procs, subprocesses, localFiles >>

\* What is left of a finished task once the executor of its pass is gone:
\* nothing holds its future any more.
Collected(task) ==
    [task EXCEPT !.state = "Collected", !.decision = "none", !.seen = NoFile,
                 !.rc = 0]

\* What the program can still read of a subprocess that has exited: that
\* poll() is not None.
Reaped(proc) == [proc EXCEPT !.task = 0, !.term = FALSE, !.killed = FALSE, !.rc = 0]

\* Lines 151-154 / 178-181: a new executor replaces the one of the pass
\* before, and the walker is called on the remote root.
BeginPass ==
    /\ pc = "scan"
    /\ pass' = pass + 1
    /\ stack' = << [dir |-> RootDir, idx |-> 1, listed |-> FALSE,
                   entries |-> <<>>] >>
    /\ visited' = <<>>
    /\ pc' = "walk"
    /\ tasks' = [t \in DOMAIN tasks |->
                    IF Terminal(t) THEN Collected(tasks[t]) ELSE tasks[t]]
    /\ procs' = [p \in DOMAIN procs |->
                    IF procs[p].status = "exited" THEN Reaped(procs[p])
                    ELSE procs[p]]
    /\ prevFailed' = \E p \in DOMAIN procs :
                        procs[p].pass = pass /\ procs[p].rc # 0
    /\ log' = {}
    /\ UNCHANGED << localDirs, stopIdx, signaled, listErr, activeAtSignal,
                    activeAtError, connUsers, exitCode, argVars, queue, worker,
                    subprocesses, localFiles >>

\* Mutant of ListBegin: the walker does not create the local directory.
ListBeginNoMakedirs ==
    /\ pc = "walk"
    /\ ~Top.listed
    /\ MainThread \notin connUsers
    /\ connUsers' = connUsers \cup {MainThread}
    /\ UNCHANGED << pc, pass, stack, visited, localDirs, stopIdx, signaled,
                    listErr, activeAtSignal, activeAtError, prevFailed,
                    exitCode, argVars, poolVars >>

\* Lines 78-82 / 99-103: makedirs, then the walker calls the listing of the
\* directory on the connection it was given.
ListBegin ==
    /\ pc = "walk"
    /\ ~Top.listed
    /\ MainThread \notin connUsers
    /\ localDirs' = localDirs \cup {Top.dir}
    /\ connUsers' = connUsers \cup {MainThread}
    /\ UNCHANGED << pc, pass, stack, visited, stopIdx, signaled, listErr,
                    activeAtSignal, activeAtError, prevFailed, exitCode,
                    argVars, poolVars >>

\* Lines 83 / 103: the listing call returns the entries.
ListDir ==
    /\ pc = "walk"
    /\ ~Top.listed
    /\ MainThread \in connUsers
    /\ connUsers' = connUsers \ {MainThread}
    /\ visited' = Append(visited, Top.dir)
    /\ \E entries \in Listings(Top.dir) :
          stack' = [stack EXCEPT ![Len(stack)].listed = TRUE,
                                 ![Len(stack)].entries = entries]
    /\ UNCHANGED << pc, pass, localDirs, stopIdx, signaled, listErr,
                    activeAtSignal, activeAtError, prevFailed, exitCode,
                    argVars, poolVars >>

\* Mutant of ListError: the walker catches the exception of a listing call
\* and goes on with the rest of the tree.
ListErrorIsolated ==
    /\ pc = "walk"
    /\ ~Top.listed
    /\ MainThread \in connUsers
    /\ connUsers' = connUsers \ {MainThread}
    /\ listErr' = TRUE
    /\ activeAtError' = Running
    /\ stack' = SubSeq(stack, 1, Len(stack) - 1)
    /\ pc' = IF Len(stack) = 1 THEN "barrier" ELSE "walk"
    /\ UNCHANGED << pass, visited, localDirs, stopIdx, signaled,
                    activeAtSignal, prevFailed, exitCode, argVars, poolVars >>

\* The listing call raises.  The exception leaves every frame of the walker
\* and the with-block of main, whose exit waits for the executor.
ListError ==
    /\ pc = "walk"
    /\ ~Top.listed
    /\ MainThread \in connUsers
    /\ connUsers' = connUsers \ {MainThread}
    /\ listErr' = TRUE
    /\ activeAtError' = Running
    /\ pc' = "errBarrier"
    /\ stack' = <<>>
    /\ UNCHANGED << pass, visited, localDirs, stopIdx, signaled,
                    activeAtSignal, prevFailed, exitCode, argVars, poolVars >>

\* Lines 88-91 / 107-110: the entry is a directory, recurse into it.
EnterSubdir ==
    /\ pc = "walk"
    /\ Top.listed
    /\ Top.idx <= Len(Top.entries)
    /\ LET e == Top.entries[Top.idx]
       IN /\ e.kind = "dir"
          /\ stack' = Append([stack EXCEPT ![Len(stack)].idx = Top.idx + 1],
                             [dir |-> Join(Top.dir, e.name), idx |-> 1,
                              listed |-> FALSE, entries |-> <<>>])
    /\ UNCHANGED << pc, pass, visited, localDirs, stopIdx, signaled, listErr,
                    activeAtSignal, activeAtError, prevFailed, connUsers, exitCode, argVars, poolVars >>

\* Lines 92-94 / 111-113: the entry is not a directory (the else branch),
\* executor.submit(download_file).
Submit ==
    /\ pc = "walk"
    /\ Top.listed
    /\ Top.idx <= Len(Top.entries)
    /\ LET e == Top.entries[Top.idx]
       IN /\ e.kind # "dir"
          /\ tasks' = Append(tasks, [path |-> Join(Top.dir, e.name),
                                     size |-> e.size, pass |-> pass,
                                     state |-> "Created", decision |-> "none",
                                     seen |-> NoFile, rc |-> 0])
          /\ queue' = Append(queue, Len(tasks) + 1)
    /\ stack' = [stack EXCEPT ![Len(stack)].idx = Top.idx + 1]
    /\ UNCHANGED << pc, pass, visited, localDirs, stopIdx, signaled, listErr,
                    activeAtSignal, activeAtError, prevFailed, connUsers, exitCode, argVars, worker,
                    procs, subprocesses, localFiles, log >>

\* The for loop of a walker frame ends: return to the caller, or, from the
\* root frame, to the end of the with-block.
ReturnDir ==
    /\ pc = "walk"
    /\ Top.listed
    /\ Top.idx > Len(Top.entries)
    /\ stack' = SubSeq(stack, 1, Len(stack) - 1)
    /\ pc' = IF Len(stack) = 1 THEN "barrier" ELSE "walk"
    /\ UNCHANGED << pass, visited, localDirs, stopIdx, signaled, listErr,
                    activeAtSignal, activeAtError, prevFailed, connUsers, exitCode, argVars, poolVars >>

\* Mutant of Barrier: the pass ends without waiting for the pool.
BarrierNoWait ==
    /\ pc = "barrier"
    /\ pc' = "after"
    /\ UNCHANGED << pass, stack, visited, localDirs, stopIdx, signaled, listErr,
                    activeAtSignal, activeAtError, prevFailed, connUsers,
                    exitCode, argVars, poolVars >>

\* The with-block's exit, executor.shutdown(wait=True), returns: line 153.
Barrier ==
    /\ pc = "barrier"
    /\ PoolDrained
    /\ pc' = "after"
    /\ UNCHANGED << pass, stack, visited, localDirs, stopIdx, signaled, listErr,
                    activeAtSignal, activeAtError, prevFailed, connUsers, exitCode, argVars, poolVars >>

\* Lines 156-158: watch mode sleeps and loops.
WatchSleep ==
    /\ pc = "after"
    /\ watch
    /\ pass < MaxPasses
    /\ pc' = "scan"
    /\ UNCHANGED << pass, stack, visited, localDirs, stopIdx, signaled, listErr,
                    activeAtSignal, activeAtError, prevFailed, connUsers, exitCode, argVars, poolVars >>

\* Mutant of Finish: the loop is left whether or not --watch was given.
FinishIgnoringWatch ==
    /\ pc = "after"
    /\ pc' = "exited"
    /\ exitCode' = "0"
    /\ log' = log \cup {<<"complete", 0>>}
    /\ UNCHANGED << pass, stack, visited, localDirs, stopIdx, signaled, listErr,
                    activeAtSignal, activeAtError, prevFailed, connUsers,
                    argVars, tasks, queue, worker, procs, subprocesses,
                    localFiles >>

\* Lines 159-162, 201: no watch mode, close the connection and return.
Finish ==
    /\ pc = "after"
    /\ ~watch
    /\ pc' = "exited"
    /\ exitCode' = "0"
    /\ log' = log \cup {<<"complete", 0>>}
    /\ UNCHANGED << pass, stack, visited, localDirs, stopIdx, signaled, listErr,
                    activeAtSignal, activeAtError, prevFailed, connUsers, argVars, tasks, queue,
                    worker, procs, subprocesses, localFiles >>

\* The with-block's exit returns while the listing exception propagates; the
\* except clause prints it and calls stop_all_subprocesses: lines 163-165.
ErrBarrier ==
    /\ pc = "errBarrier"
    /\ PoolDrained
    /\ pc' = "errStop"
    /\ stopIdx' = 1
    /\ log' = log \cup {<<"error", 0>>}
    /\ UNCHANGED << pass, stack, visited, localDirs, signaled, listErr,
                    activeAtSignal, activeAtError, prevFailed, connUsers, exitCode, argVars, tasks,
                    queue, worker, procs, subprocesses, localFiles >>

\* stop_all_subprocesses, called from the except clause or from the handler.
StopStep ==
    /\ pc \in {"errStop", "sigStop"}
    /\ StopOne
    /\ UNCHANGED << pc, pass, stack, visited, localDirs, signaled, listErr,
                    activeAtSignal, activeAtError, prevFailed, connUsers, exitCode, argVars, tasks,
                    queue, worker, subprocesses, log >>

\* Line 166 / 199: raise.  The exception ends main: a traceback and status 1.
Reraise ==
    /\ pc = "errStop"
    /\ StopFinished
    /\ pc' = "exited"
    /\ exitCode' = "1"
    /\ UNCHANGED << pass, stack, visited, localDirs, stopIdx, signaled, listErr,
                    activeAtSignal, activeAtError, prevFailed, connUsers, argVars, poolVars >>

\* SIGINT or SIGTERM: signal_handler runs in the main thread, wherever it
\* is, and calls stop_all_subprocesses: lines 21-23.
Signal ==
    /\ pc \notin {"exited", "sigStop", "sigExit"}
    /\ ~signaled
    /\ signaled' = TRUE
    /\ activeAtSignal' = Running
    /\ pc' = "sigStop"
    /\ stopIdx' = 1
    /\ log' = log \cup {<<"signal", 0>>}
    /\ UNCHANGED << pass, stack, visited, localDirs, listErr, activeAtError,
                    prevFailed, connUsers, exitCode, argVars, tasks, queue, worker, procs,
                    subprocesses, localFiles >>

\* Line 24: sys.exit(0) raises SystemExit in the main thread, which leaves
\* whatever call the signal interrupted.
SysExit ==
    /\ pc = "sigStop"
    /\ StopFinished
    /\ pc' = "sigExit"
    /\ stack' = <<>>
    /\ connUsers' = connUsers \ {MainThread}
    /\ UNCHANGED << pass, visited, localDirs, stopIdx, signaled, listErr,
                    activeAtSignal, activeAtError, prevFailed, exitCode,
                    argVars, poolVars >>

\* SystemExit is no Exception, so no except clause of main catches it.  It
\* leaves the with-block, whose exit waits for the executor, and the
\* interpreter joins the worker threads before it exits with status 0.
ExitAfterSignal ==
    /\ pc = "sigExit"
    /\ PoolDrained
    /\ pc' = "exited"
    /\ exitCode' = "0"
    /\ UNCHANGED << pass, stack, visited, localDirs, stopIdx, signaled, listErr,
                    activeAtSignal, activeAtError, prevFailed, connUsers, argVars, poolVars >>

Next ==
    \/ Connect
    \/ ConnectFail
    \/ BeginPass
    \/ ListBegin
    \/ ListDir
    \/ ListError
    \/ EnterSubdir
    \/ Submit
    \/ ReturnDir
    \/ Barrier
    \/ WatchSleep
    \/ Finish
    \/ ErrBarrier
    \/ StopStep
    \/ Reraise
    \/ Signal
    \/ SysExit
    \/ ExitAfterSignal
    \/ \E w \in Workers : WorkerTake(w)
    \/ \E w \in Workers : Popen(w)
    \/ \E w \in Workers : Register(w)
    \/ \E w \in Workers : WaitReturn(w)

Spec == Init /\ [][Next]_vars

\* The steps the main thread takes by itself: everything but the arrival of a
\* signal and the failure of a connect or listing call.
MainStep ==
    \/ Connect
    \/ BeginPass
    \/ ListBegin
    \/ ListDir
    \/ EnterSubdir
    \/ Submit
    \/ ReturnDir
    \/ Barrier
    \/ WatchSleep
    \/ Finish
    \/ ErrBarrier
    \/ StopStep
    \/ Reraise
    \/ SysExit
    \/ ExitAfterSignal

\* The steps of one worker thread.
WorkerStep(w) ==
    /\ w \in Workers
    /\ \/ WorkerTake(w)
       \/ Popen(w)
       \/ Register(w)
       \/ WaitReturn(w)

\* A run with --watch and without --force.
WatchInit == Init /\ watch /\ ~force

\* The steps of a watch run: the loop is never left through line 159.
WatchNext ==
    \/ Connect
    \/ ConnectFail
    \/ BeginPass
    \/ ListBegin
    \/ ListDir
    \/ ListError
    \/ EnterSubdir
    \/ Submit
    \/ ReturnDir
    \/ Barrier
    \/ WatchSleep
    \/ ErrBarrier
    \/ StopStep
    \/ Reraise
    \/ Signal
    \/ SysExit
    \/ ExitAfterSignal
    \/ \E w \in Workers : WorkerTake(w)
    \/ \E w \in Workers : Popen(w)
    \/ \E w \in Workers : Register(w)
    \/ \E w \in Workers : WaitReturn(w)

\* A watch run in which the threads are scheduled fairly, calls on the
\* connection return or raise, and every aria2c subprocess ends
\* (process.wait() has no timeout).
FairSpec ==
    /\ WatchInit
    /\ [][WatchNext]_vars
    /\ WF_vars(MainStep)
    /\ \A w \in 1..MaxWorkers : WF_vars(WorkerStep(w))


(***************************************************************************)
(* Properties.                                                             *)
(***************************************************************************)
\* The name of the file a task is for (item_filename).
FileName(t) == tasks[t].path[Len(tasks[t].path)]

\* Tasks of the current pass whose decision has been taken.
Decided == { t \in DOMAIN tasks : tasks[t].decision # "none" }

\* The subprocesses started for task t.
ProcsOf(t) == { p \in DOMAIN procs : procs[p].task = t }

\* The file name ends with at least one entry of the filter, or there is no
\* filter.
PassesFilter(t) ==
    \/ filter_extension = <<>>
    \/ \E i \in 1..Len(Split(filter_extension)) :
          EndsWith(FileName(t), Split(filter_extension)[i])

\* C1: Pool barrier.  When the wait that ends a pass has returned, every task
\* submitted during the pass is Completed or Failed, and while a later pass
\* runs no task of an earlier pass is still queued or running.
PoolBarrier ==
    /\ pc \in {"after", "scan"} =>
          \A t \in DOMAIN tasks :
              tasks[t].state \in {"Completed", "Failed", "Collected"}
    /\ \A t \in DOMAIN tasks :
          tasks[t].pass < pass => tasks[t].state \notin {"Created", "Running"}
    /\ \A w \in Workers :
          worker[w].pc # "idle" => tasks[worker[w].task].pass = pass

\* C1 witness: the second pass has listed a directory after a first pass in
\* which a transfer ran.
PoolBarrierWitness ==
    /\ pass = 2
    /\ pc = "walk"
    /\ visited # <<>>
    /\ \E p \in DOMAIN procs : procs[p].pass = 1
    /\ \E t \in DOMAIN tasks : tasks[t].pass = 1

\* C2 as claimed: the global list subprocesses never holds more than
\* max-concurrency transfers.
RegistryBounded == Len(subprocesses) <= max_concurrency

\* C3: for a file that passes the filter the decision is Download when the
\* local file is missing, Skip when it exists with the remote size and force
\* is off, Download otherwise; a Skip starts no transfer and a Download that
\* has finished did start one.
SyncDecision ==
    \A t \in Decided :
        PassesFilter(t) =>
            /\ tasks[t].decision =
                  IF tasks[t].seen = NoFile THEN "Download"
                  ELSE IF tasks[t].seen = tasks[t].size /\ ~force THEN "Skip"
                  ELSE "Download"
            /\ tasks[t].decision = "Skip" =>
                  tasks[t].state = "Completed" /\ ProcsOf(t) = {}
            /\ tasks[t].decision = "Download" /\ Terminal(t) =>
                  Cardinality(ProcsOf(t)) = 1

\* C3 witness: in one pass a file of equal size was skipped and a file of
\* another size was downloaded.
SyncDecisionWitness ==
    /\ ~force
    /\ \E t \in Decided :
          /\ PassesFilter(t)
          /\ tasks[t].seen = tasks[t].size
          /\ tasks[t].decision = "Skip"
    /\ \E t \in Decided :
          /\ PassesFilter(t)
          /\ tasks[t].seen \notin {NoFile, tasks[t].size}
          /\ Terminal(t)
          /\ ProcsOf(t) # {}

\* C4: a file whose name ends with none of the filter's entries is skipped
\* and starts no transfer, whatever the local file and the force flag.
FilterBeforeSize ==
    \A t \in Decided :
        ( /\ filter_extension # <<>>
          /\ \A i \in 1..Len(Split(filter_extension)) :
                ~EndsWith(FileName(t), Split(filter_extension)[i]) )
        => /\ tasks[t].decision = "Skip"
           /\ tasks[t].state = "Completed"
           /\ ProcsOf(t) = {}

\* C4 witness: a filtered-out file that is missing locally, under --force,
\* was skipped.
FilterBeforeSizeWitness ==
    \E t \in Decided :
        /\ ~PassesFilter(t)
        /\ tasks[t].seen = NoFile
        /\ force
        /\ tasks[t].decision = "Skip"

\* C5 as claimed: a file with no local copy is downloaded, whatever the force
\* flag and the filter.
MissingAlwaysDownloaded ==
    \A t \in Decided : tasks[t].seen = NoFile => tasks[t].decision = "Download"

\* C5 amended: a file with no local copy that passes the filter is
\* downloaded, whatever the force flag.
MissingDownloadedUnlessFiltered ==
    \A t \in Decided :
        tasks[t].seen = NoFile /\ PassesFilter(t) =>
            /\ tasks[t].decision = "Download"
            /\ tasks[t].state # "Completed" \/ ProcsOf(t) # {}

\* C5 witness: without --force and under a filter the file passes, a missing
\* file was transferred.
MissingDownloadedWitness ==
    \E t \in Decided :
        /\ tasks[t].seen = NoFile
        /\ ~force
        /\ filter_extension # <<>>
        /\ tasks[t].decision = "Download"
        /\ tasks[t].state = "Completed"

\* Transfers started in the current pass.
StartedThisPass == { p \in DOMAIN procs : procs[p].pass = pass }

\* C6 as claimed: without --force, a pass that follows another starts no
\* transfer, whatever the first pass did.
SecondPassIdle ==
    pass >= 2 /\ ~force => StartedThisPass = {}

\* C6 amended: without --force, a pass that follows a pass in which every
\* transfer completed (exit 0, the local file of the remote size) starts no
\* transfer.
SecondPassIdleAfterCleanPass ==
    pass >= 2 /\ ~force /\ ~prevFailed => StartedThisPass = {}

\* C6 witness: the second pass is over, without --force, after a first pass
\* that transferred a file and in which no transfer failed.
SecondPassIdleWitness ==
    /\ pass = 2
    /\ pc = "after"
    /\ ~force
    /\ ~prevFailed
    /\ \E p \in DOMAIN procs : procs[p].pass = 1
    /\ \E t \in Decided : tasks[t].pass = 2 /\ tasks[t].decision = "Skip"
                          /\ PassesFilter(t)

\* C7 as claimed: once the signal handler has stopped the subprocesses and
\* calls sys.exit, no transfer that was running when the signal came is still
\* running, and the process exits with status 0 and no transfer left.
InterruptStopsTransfers ==
    /\ pc = "sigExit" =>
          \A p \in activeAtSignal : procs[p].status = "exited"
    /\ pc = "exited" /\ signaled => exitCode = "0" /\ Running = {}

\* C8 as claimed: a task whose transfer exited nonzero is reported, and it
\* is not run again in its pass.
FailureReported ==
    \A t \in DOMAIN tasks :
        tasks[t].state = "Failed" =>
            /\ <<"failed", t>> \in log
            /\ Cardinality(ProcsOf(t)) = 1

\* C9 as claimed: after a listing call raised, the main thread lists no
\* directory, submits no task and starts no pass, and the process ends with a
\* nonzero status.
ListErrorFatal ==
    listErr =>
        /\ pc \in {"errBarrier", "errStop", "sigStop", "sigExit", "exited"}
        /\ pc = "exited" => exitCode = "1"

\* C9 amended: after a listing call raised, no directory is listed, no task
\* is submitted and no pass is started, also in watch mode; the process ends
\* with a nonzero status unless a signal is delivered before it has ended,
\* and then with status 0.
ListErrorFatalUnlessInterrupted ==
    /\ [][listErr => /\ visited' = visited
                     /\ Len(tasks') = Len(tasks)
                     /\ Len(queue') <= Len(queue)
                     /\ pass' = pass
                     /\ listErr']_vars
    /\ [](listErr /\ pc = "exited" =>
             exitCode = IF signaled THEN "0" ELSE "1")

\* C9 witness: in watch mode the listing of the subdirectory raised, after
\* the root was listed, and the process has ended with status 1.
ListErrorFatalWitness ==
    /\ listErr
    /\ watch
    /\ visited = <<RootDir>>
    /\ pc = "exited"
    /\ exitCode = "1"
    /\ Len(tasks) = 1

\* C10 as claimed: when the run ends on a listing error, every transfer that
\* was running when the error was raised has been asked to terminate by
\* stop_all_subprocesses.
ErrorStopsTransfers ==
    listErr /\ ~signaled /\ pc = "exited" =>
        \A p \in activeAtError : procs[p].term

\* The explored part of an endless watch run has ended: the last pass the
\* bound MaxPasses allows is over.
PassBoundReached == watch /\ pc = "after" /\ pass >= MaxPasses

\* C11: without --watch the run makes exactly one pass, waits for the pool and
\* exits 0, also when transfers failed; with --watch, absent a signal or an
\* error, it never exits and never stalls: every pass is followed by the
\* barrier and the sleep and then by another pass, whose executor holds only
\* its own tasks, on the connection made once at the start.
WatchLoop ==
    /\ ~watch => pass <= 1
    /\ ~watch /\ pc = "exited" /\ ~signaled /\ ~listErr /\ pass >= 1 =>
          /\ exitCode = "0"
          /\ pass = 1
          /\ \A t \in DOMAIN tasks : Terminal(t)
    /\ watch /\ pc = "exited" => signaled \/ exitCode = "1"
    /\ pc \in {"after", "scan"} => PoolDrained
    /\ pass >= 1 => pc # "start"
    /\ \A t \in DOMAIN tasks :
          tasks[t].pass < pass => tasks[t].state = "Collected"
    /\ pc # "exited" /\ ~PassBoundReached => ENABLED MainStep \/ ~PoolDrained

\* C11 witness: without --watch the run has ended with status 0 after one
\* pass in which a transfer failed.
WatchLoopWitness ==
    /\ ~watch
    /\ pc = "exited"
    /\ exitCode = "0"
    /\ ~signaled
    /\ pass = 1
    /\ \E t \in DOMAIN tasks : tasks[t].state = "Failed"

\* C12: the listing is strictly serial: only the traversal (main) thread is
\* ever inside a call on the connection, one call at a time, and it is inside
\* one only while it walks a directory it has not listed yet (or while the
\* signal handler has interrupted that call); the workers never use the
\* connection.
ConnectionSerial ==
    /\ connUsers \subseteq {MainThread}
    /\ \A w \in Workers : w \notin connUsers
    /\ MainThread \in connUsers =>
          \/ pc = "walk" /\ stack # <<>> /\ ~Top.listed
          \/ pc = "sigStop" /\ signaled

\* C12 witness: the main thread is inside a listing call while a worker's
\* transfer is running.
ConnectionSerialWitness ==
    /\ MainThread \in connUsers
    /\ \E w \in Workers :
          /\ worker[w].pc = "wait"
          /\ procs[worker[w].proc].status = "running"

\* The tasks of the current pass, in submission order.
PassTasks == SelectSeq([i \in 1..Len(tasks) |-> i],
                       LAMBDA t : tasks[t].pass = pass
                                  /\ tasks[t].state # "Collected")

\* The walk of the current pass is complete: the root frame has returned.
WalkDone == pc \in {"barrier", "after"}

\* C13: in one pass without a listing error the walker submits exactly one
\* task for each File entry reachable from the root and none for an entry
\* that is not a File, and recurses into every reachable directory exactly
\* once, depth-first, in listing order.
WalkCoversTree ==
    /\ [][Len(tasks') = Len(tasks) + 1 =>
             Top.entries[Top.idx].kind = "file"]_vars
    /\ [](WalkDone =>
             /\ visited = << RootDir, Join(RootDir, SubDir) >>
             /\ \A t1, t2 \in DOMAIN tasks :
                   tasks[t1].pass = pass /\ tasks[t2].pass = pass
                   /\ tasks[t1].path = tasks[t2].path => t1 = t2
             /\ \E t \in DOMAIN tasks :
                   tasks[t].pass = pass /\ tasks[t].path = Join(RootDir, FileA))

\* What the walker does: one task for each entry that is not a directory,
\* file or not, in depth-first listing order, and every directory listed
\* once.
WalkSubmitsNonDirectories ==
    WalkDone =>
        /\ visited = << RootDir, Join(RootDir, SubDir) >>
        /\ Len(PassTasks) = 2
        /\ tasks[PassTasks[1]].path = Join(RootDir, FileA)
        /\ tasks[PassTasks[2]].path = Join(Join(RootDir, SubDir), FileB)

\* C14: directory mirroring does not depend on the filter: after a pass
\* without listing error every remote directory has its local directory, also
\* one whose files are all filtered out or skipped, and the local directory
\* of a file exists before the file's task is submitted.
DirsMirrored ==
    /\ WalkDone => { RootDir, Join(RootDir, SubDir) } \subseteq localDirs
    /\ \A t \in DOMAIN tasks : DirName(tasks[t].path) \in localDirs
    /\ \A d \in localDirs : Ancestors(d) \subseteq localDirs

\* C14 witness: the filter is "t", the only file of d was filtered out, no
\* local file of d exists, and d has been created locally.
DirsMirroredWitness ==
    /\ pc = "after"
    /\ filter_extension = <<"t">>
    /\ localFiles[Join(Join(RootDir, SubDir), FileB)] = NoFile
    /\ \E t \in DOMAIN tasks :
          /\ tasks[t].path = Join(Join(RootDir, SubDir), FileB)
          /\ tasks[t].decision = "Skip"
    /\ Join(RootDir, SubDir) \in localDirs

\* The subprocesses the registry holds.
Registered == { subprocesses[i] : i \in DOMAIN subprocesses }

\* C15: a transfer is in the registry exactly while it is running: every
\* running subprocess is registered, and a finished one is not.
RegistryTracksRunning == Registered = Running

\* stop_all_subprocesses is inside its for loop: it has handled an element
\* and has not left the loop.
Iterating == pc \in {"sigStop", "errStop"} /\ stopIdx > 1

\* C16: registry accesses are mutually exclusive: no worker inserts into the
\* registry while stop_all_subprocesses iterates it.
RegistryExclusive == [][Iterating => subprocesses' = subprocesses]_vars

\* The tasks a worker is running download_file's transfer for.
RunningTasks == { t \in DOMAIN tasks : tasks[t].state = "Running" }

\* C17: no two tasks that are Running at the same instant, of one pass or of
\* consecutive passes, target the same local path, and no two live aria2c
\* subprocesses write the same local file.
DisjointTargets ==
    /\ \A t1, t2 \in RunningTasks :
          tasks[t1].path = tasks[t2].path => t1 = t2
    /\ \A p1, p2 \in Running :
          tasks[procs[p1].task].path = tasks[procs[p2].task].path => p1 = p2

\* C17 witness: in the second pass two transfers run at once, for files that
\* were also downloaded in the first pass.
DisjointTargetsWitness ==
    /\ pass = 2
    /\ Cardinality(Running) = 2
    /\ Cardinality({ t \in RunningTasks : tasks[t].pass = 2 }) = 2
    /\ Len(procs) = 4

\* C18: at most max-concurrency transfer subprocesses are alive at once, and
\* queued tasks are started in the order of their submission: the queue
\* holds the tasks not yet started, oldest first, and no task has been
\* started while one submitted before it still waits.
BoundedFifo ==
    /\ Cardinality(Running) <= max_concurrency
    /\ Cardinality(RunningTasks) <= max_concurrency
    /\ \A i, j \in DOMAIN queue : i < j => queue[i] < queue[j]
    /\ { queue[i] : i \in DOMAIN queue } =
          { t \in DOMAIN tasks : tasks[t].state = "Created" }
    /\ \A t1, t2 \in DOMAIN tasks :
          t1 < t2 /\ tasks[t2].state # "Created" => tasks[t1].state # "Created"

\* C18 witness: with one slot, the second task runs its transfer after the
\* first task's transfer has ended, and the slot is full.
BoundedFifoWitness ==
    /\ max_concurrency = 1
    /\ Len(tasks) = 2
    /\ tasks[1].decision = "Download" /\ Terminal(1)
    /\ tasks[2].state = "Running"
    /\ Cardinality(Running) = 1

\* C19: once the signal handler has begun stop_all_subprocesses, no new
\* transfer subprocess is started.
NoStartAfterShutdown == [][signaled => Len(procs') = Len(procs)]_vars

\* Every remote file the filter lets through has a local copy of its size.
Synced ==
    \A path \in FilePaths :
        (\/ filter_extension = <<>>
         \/ AnyEndsWith(path[Len(path)], filter_extension))
        => localFiles[path] = RemoteSize(path)

\* A transfer of the current pass has failed.
FailedInPass ==
    \E t \in DOMAIN tasks : tasks[t].pass = pass /\ tasks[t].state = "Failed"

\* C20: in watch mode without --force, with no error and no interrupt, and
\* unless transfers keep failing up to the last pass explored, eventually
\* every remote file the filter lets through has a local copy of equal size;
\* from then on it stays so and no transfer is started; and a file found with
\* a size other than the remote one (a failed or partial transfer) is
\* downloaded again by the pass that finds it.
EventualSync ==
    /\ <>(Synced \/ signaled \/ exitCode = "1"
          \/ (PassBoundReached /\ FailedInPass))
    /\ [][Synced => Synced' /\ Len(procs') = Len(procs)]_vars
    /\ [](\A t \in Decided :
             PassesFilter(t) /\ tasks[t].seen # tasks[t].size
                => tasks[t].decision = "Download")
    /\ [](pc = "after" /\ ~FailedInPass => Synced)

\* C20 witness: the first pass left a file partial after a failed transfer,
\* the second pass downloaded it again, and the tree is synced.
EventualSyncWitness ==
    /\ pass = 2
    /\ pc = "after"
    /\ prevFailed
    /\ ~signaled
    /\ Synced
    /\ \E p \in DOMAIN procs : procs[p].pass = 2 /\ procs[p].rc = 0

=============================================================================
